---------------------------- MODULE Spec2Model ----------------------------
(***************************************************************************)
(* Model of the QA-benchmark curation pipeline of src/routines.py:         *)
(* DataPreprocessingRoutine (load, filter, extract, drop, save) and        *)
(* DataCompilationRoutine (load, compile evidence corpus, compile QA       *)
(* records, save twice), run against a file store.                         *)
(*                                                                         *)
(* Python strings are sequences of one-character strings; a JSON record is *)
(* a function whose domain is the set of keys it has, so that rec['k'] on  *)
(* a record without the key k raises, as it does in Python.                *)
(***************************************************************************)
EXTENDS Integers, Sequences, FiniteSets

\* ------------------------------------------------------------------ bounds

\* Longest raw record list drawn as input of the preparation functions.
MaxRecs == 2
\* Longest clean record list drawn as input of the compilation functions.
MaxClean == 3

\* ------------------------------------------------------- Python primitives

\* The result of a call that returned v, and of a call that raised.
Ok(v) == [raised |-> FALSE, val |-> v]
Raise == [raised |-> TRUE]

Min(a, b) == IF a < b THEN a ELSE b
Max(a, b) == IF a < b THEN b ELSE a

\* list[s:e] of Python: a negative index counts from the end, and both ends
\* are clamped to the list.
PySlice(l, s, e) ==
    LET n  == Len(l)
        lo == IF s < 0 THEN Max(s + n, 0) ELSE Min(s, n)
        hi == IF e < 0 THEN Max(e + n, 0) ELSE Min(e, n)
    IN  IF lo < hi THEN SubSeq(l, lo + 1, hi) ELSE << >>

\* The positions of character c in string s.
Positions(s, c) == {i \in 1..Len(s) : s[i] = c}

SetMin(S) == CHOOSE x \in S : \A y \in S : x <= y

\* s.split(" ") of Python: one token more than s has spaces; tokens may be
\* empty.
RECURSIVE PySplit(_)
PySplit(s) ==
    IF Positions(s, " ") = {}
    THEN << s >>
    ELSE LET i == SetMin(Positions(s, " "))
         IN  << SubSeq(s, 1, i - 1) >> \o PySplit(SubSeq(s, i + 1, Len(s)))

\* " ".join(toks) of Python.
RECURSIVE PyJoin(_)
PyJoin(toks) ==
    IF toks = << >> THEN << >>
    ELSE IF Len(toks) = 1 THEN toks[1]
    ELSE toks[1] \o << " " >> \o PyJoin(Tail(toks))

\* a in b of Python, on strings.
PyIn(a, b) ==
    \E i \in 0..(Len(b) - Len(a)) : SubSeq(b, i + 1, i + Len(a)) = a

\* ---------------------------------------------------- record-level helpers

\* re.sub('<.*?>', '', text): scanning from the left, a '<' starts a match
\* that runs to the nearest following '>' provided no newline lies between
\* them ('.' does not match a newline); a matched stretch is removed and the
\* scan resumes after it; any other character is kept.
RECURSIVE clean_document_text(_)
clean_document_text(text) ==
    IF text = << >> THEN << >>
    ELSE LET closes == Positions(text, ">") \ {1}
             j      == SetMin(closes)
         IN  IF /\ text[1] = "<"
                /\ closes # {}
                /\ \A k \in 2..(j - 1) : text[k] # "\n"
             THEN clean_document_text(SubSeq(text, j + 1, Len(text)))
             ELSE << text[1] >> \o clean_document_text(Tail(text))

\* A URL is a sequence of symbols in which the two markers the pattern
\* 'title=(.*?)&amp' looks for, "title=" and "&amp", are single symbols.
NoTitleFound == << "No Title Found" >>

\* re.search(pattern, document_url).group(1), with the sentinel when nothing
\* matches: the leftmost "title=" that has an "&amp" after it, and the
\* symbols up to the nearest such "&amp".
extract_wiki_title(document_url) ==
    LET opens == {i \in Positions(document_url, "title=") :
                    \E j \in Positions(document_url, "&amp") : j > i}
    IN  IF opens = {} THEN NoTitleFound
        ELSE LET i == SetMin(opens)
                 j == SetMin({k \in Positions(document_url, "&amp") : k > i})
             IN  SubSeq(document_url, i + 1, j - 1)

\* Whether example['annotations'][0]['short_answers'] can be evaluated.
HasFirstAnnotation(example) ==
    /\ "annotations" \in DOMAIN example
    /\ Len(example["annotations"]) >= 1
    /\ "short_answers" \in DOMAIN example["annotations"][1]

\* A span resolution whose slice takes the token at end_token as well.
SpanEndInclusive(example) ==
    IF ~HasFirstAnnotation(example) THEN Raise
    ELSE LET sa_field == example["annotations"][1]["short_answers"]
         IN  IF Len(sa_field) >= 1
             THEN Ok(PyJoin(PySlice(PySplit(example["document_text"]),
                                    sa_field[1]["start_token"],
                                    sa_field[1]["end_token"] + 1)))
             ELSE Ok(<< >>)

get_short_answer_from_span(example) ==
    IF ~HasFirstAnnotation(example) THEN Raise
    ELSE LET sa_field == example["annotations"][1]["short_answers"]
         IN  IF Len(sa_field) >= 1
             THEN LET short_answer_span == sa_field[1]
                  IN  IF \/ "document_text" \notin DOMAIN example
                         \/ "start_token" \notin DOMAIN short_answer_span
                         \/ "end_token" \notin DOMAIN short_answer_span
                      THEN Raise
                      ELSE Ok(PyJoin(PySlice(PySplit(example["document_text"]),
                                             short_answer_span["start_token"],
                                             short_answer_span["end_token"])))
             ELSE Ok(<< >>)

\* ------------------------------------------- DataPreprocessingRoutine steps

\* A truncation that keeps the last span of the list.
TruncatedToLast(rec) ==
    [rec EXCEPT !["annotations"][1]["short_answers"] =
        << rec["annotations"][1]["short_answers"]
             [Len(rec["annotations"][1]["short_answers"])] >>]

\* new_rec = rec.copy(); new_rec['annotations'][0]['short_answers'] = temp,
\* with temp the one-element list of the first span.  The copy is shallow:
\* the annotation that is assigned to is the one rec holds too.
Truncated(rec) ==
    [rec EXCEPT !["annotations"][1]["short_answers"] =
                    << rec["annotations"][1]["short_answers"][1] >>]

\* The loop of filter_nq_train_data from record i on.  data is the input
\* list with the records as the loop has left them so far, filtered_data the
\* output list so far.  Indexing a record without a first annotation raises
\* and ends the call.
RECURSIVE FilterLoop(_, _, _, _)
FilterLoop(data, mode, i, filtered_data) ==
    IF i > Len(data)
    THEN [raised |-> FALSE, out |-> filtered_data, inp |-> data]
    ELSE LET rec == data[i]
         IN  IF ~HasFirstAnnotation(rec)
             THEN [raised |-> TRUE, out |-> filtered_data, inp |-> data]
             ELSE LET n == Len(rec["annotations"][1]["short_answers"])
                  IN  IF n = 0 /\ mode = TRUE
                      THEN FilterLoop(data, mode, i + 1, filtered_data)
                      ELSE IF n > 1
                      THEN FilterLoop([data EXCEPT ![i] = Truncated(rec)],
                                      mode, i + 1,
                                      Append(filtered_data, Truncated(rec)))
                      ELSE FilterLoop(data, mode, i + 1,
                                      Append(filtered_data, rec))

\* A filter that drops the records without a span whatever the mode.
FilterAlwaysStrict(data, mode) == FilterLoop(data, TRUE, 1, << >>)

\* filter_nq_train_data on self.data under self.mode: whether it raised, the
\* new list (out) and the consumed list as the call left it (inp).
filter_nq_train_data(data, mode) == FilterLoop(data, mode, 1, << >>)

\* The body of the try block of extract_data for one record: an exception
\* ("error"), the consistency check failing ("drop"), or the clean record.
ExtractRecord(rec) ==
    IF \/ "example_id" \notin DOMAIN rec
       \/ "document_url" \notin DOMAIN rec
       \/ "question_text" \notin DOMAIN rec
       \/ get_short_answer_from_span(rec).raised
       \/ "document_text" \notin DOMAIN rec
    THEN [kind |-> "error"]
    ELSE LET short_answer        == get_short_answer_from_span(rec).val
             document_text_clean == clean_document_text(rec["document_text"])
             document_title      == extract_wiki_title(rec["document_url"])
         IN  IF ~PyIn(short_answer, document_text_clean)
             THEN [kind |-> "drop"]
             ELSE [kind |-> "ok",
                   rec  |-> [example_id          |-> rec["example_id"],
                             document_title      |-> document_title,
                             document_url        |-> rec["document_url"],
                             question_text       |-> rec["question_text"],
                             short_answer        |-> short_answer,
                             document_text_clean |-> document_text_clean]]

RECURSIVE ExtractLoop(_, _, _)

\* An except clause that ends the loop (break) instead of continuing.
OnRecordErrorBreak(data, i, extracted_data) ==
    [raised |-> FALSE, out |-> extracted_data]

\* No except clause: the exception leaves extract_data.
OnRecordErrorRaise(data, i, extracted_data) ==
    [raised |-> TRUE, out |-> extracted_data]

\* What the except clause of extract_data does with the loop when the try
\* block of record i raised: log and continue with the next record.
OnRecordError(data, i, extracted_data) ==
    ExtractLoop(data, i + 1, extracted_data)

ExtractLoop(data, i, extracted_data) ==
    IF i > Len(data)
    THEN [raised |-> FALSE, out |-> extracted_data]
    ELSE LET r == ExtractRecord(data[i])
         IN  IF r.kind = "error"
             THEN OnRecordError(data, i, extracted_data)
             ELSE IF r.kind = "drop"
             THEN ExtractLoop(data, i + 1, extracted_data)
             ELSE ExtractLoop(data, i + 1, Append(extracted_data, r.rec))

extract_data(data) == ExtractLoop(data, 1, << >>)

\* The threshold of drop_longer_answers.
MaxAnswerTokens == 5

\* The comparison with a threshold that is one too high.
KeepsAnswerOffByOne(rec) ==
    Len(PySplit(rec["short_answer"])) <= MaxAnswerTokens + 1

\* A length test that counts the characters of the answer, not its tokens.
KeepsAnswerByCharacters(rec) == Len(rec["short_answer"]) <= MaxAnswerTokens

KeepsAnswer(rec) == Len(PySplit(rec["short_answer"])) <= MaxAnswerTokens

drop_longer_answers(data) == SelectSeq(data, KeepsAnswer)

\* -------------------------------------------- DataCompilationRoutine steps

\* A membership test that looks only at the title seen last.
NotSeenLastOnly(title, unique_titles) ==
    \/ unique_titles = << >>
    \/ unique_titles[Len(unique_titles)] # title

\* rec['document_title'] not in unique_titles
NotSeen(title, unique_titles) ==
    \A k \in 1..Len(unique_titles) : unique_titles[k] # title

RECURSIVE EvidenceLoop(_, _, _, _)
EvidenceLoop(data, i, unique_titles, evidence_docs) ==
    IF i > Len(data) THEN evidence_docs
    ELSE LET rec == data[i]
         IN  IF NotSeen(rec["document_title"], unique_titles)
             THEN EvidenceLoop(data, i + 1,
                      Append(unique_titles, rec["document_title"]),
                      Append(evidence_docs,
                          [document_title      |-> rec["document_title"],
                           document_url        |-> rec["document_url"],
                           document_text_clean |-> rec["document_text_clean"]]))
             ELSE EvidenceLoop(data, i + 1, unique_titles, evidence_docs)

compile_evidence_corpus(data) == EvidenceLoop(data, 1, << >>, << >>)

\* A comprehension that removes document_title instead.
SlimRecordWrongKey(rec) ==
    [k \in DOMAIN rec \ {"document_title"} |-> rec[k]]

\* {k: v for k, v in rec.items() if k != 'document_text_clean'}
SlimRecord(rec) ==
    [k \in DOMAIN rec \ {"document_text_clean"} |-> rec[k]]

compile_qa_records(data) == [i \in 1..Len(data) |-> SlimRecord(data[i])]

\* --------------------------------------------------------------- the store

\* ext = "" if self.mode else "_fullsys"
ext(mode) == IF mode THEN "" ELSE "_fullsys"

\* A path is the file's stem and the suffix that names the mode.
raw_data_path     == << "data/raw_data/simplified-nq-train", "" >>
outfile(mode)     == << "data/stage_data/extracted_clean_data", ext(mode) >>
outfile_ec(mode)  == << "data/eval_data/evidence_corpus", ext(mode) >>
outfile_rec(mode) == << "data/eval_data/qa_records", ext(mode) >>

\* clean_data_path of DataCompilationRoutine when none is passed.
clean_data_path(mode) ==
    << "data/stage_data/extracted_clean_data", ext(mode) >>

OutputPaths ==
    UNION {{outfile(m), outfile_ec(m), outfile_rec(m)} : m \in BOOLEAN}
Paths == {raw_data_path} \cup OutputPaths

NoFile     == [exists |-> FALSE, content |-> << >>]
File(list) == [exists |-> TRUE, content |-> list]

\* create_pkl_file(obj, outfile): the store with obj persisted at outfile.
create_pkl_file(files, obj, path) == [files EXCEPT ![path] = File(obj)]

\* ------------------------------------------------------------------ inputs

Span(s, e) == [start_token |-> s, end_token |-> e]
Ann(spans) == [short_answers |-> spans, yes_no_answer |-> "NONE"]
Raw(id, url, doc, anns) ==
    [example_id    |-> id,
     document_url  |-> url,
     question_text |-> << "q" >>,
     document_text |-> doc,
     annotations   |-> anns]
Without(rec, key) == [k \in DOMAIN rec \ {key} |-> rec[k]]

\* "a b", "a <b> a" and five spaces (six empty tokens).
DocPlain  == << "a", " ", "b" >>
DocTagged == << "a", " ", "<", "b", ">", " ", "a" >>
DocBlank  == << " ", " ", " ", " ", " " >>

\* Two URLs of the article A, one of the article B, one without a title.
UrlA    == << "x", "title=", "A", "&amp", "y" >>
UrlA2   == << "title=", "A", "&amp" >>
UrlB    == << "title=", "B", "&amp" >>
UrlNone == << "x" >>

\* Well-formed raw records: no span, one span, several spans; spans that are
\* empty, out of range or counted from the end; answers that straddle a tag;
\* answers of five and of six tokens; a second annotation.
GoodRecords ==
    { Raw(1, UrlA, DocPlain, << Ann(<< >>) >>),
      Raw(2, UrlA, DocPlain, << Ann(<< Span(0, 1) >>) >>),
      Raw(3, UrlA2, DocPlain, << Ann(<< Span(1, 2) >>) >>),
      Raw(4, UrlB, DocPlain, << Ann(<< Span(1, 1) >>) >>),
      Raw(5, UrlB, DocPlain, << Ann(<< Span(5, 7) >>) >>),
      Raw(6, UrlNone, DocPlain, << Ann(<< Span(-1, 2) >>) >>),
      Raw(7, UrlNone, DocPlain, << Ann(<< Span(0, 1), Span(1, 2) >>) >>),
      Raw(8, UrlA, DocTagged, << Ann(<< Span(0, 2) >>) >>),
      Raw(9, UrlB, DocTagged, << Ann(<< Span(2, 3) >>) >>),
      Raw(10, UrlB, DocTagged,
          << Ann(<< Span(1, 2), Span(0, 1), Span(2, 3) >>) >>),
      Raw(11, UrlA, DocBlank, << Ann(<< Span(0, 6) >>) >>),
      Raw(12, UrlA2, DocBlank, << Ann(<< Span(0, 5) >>) >>),
      Raw(13, UrlB, DocBlank, << Ann(<< Span(0, 6), Span(0, 1) >>) >>),
      Raw(14, UrlA, DocPlain, << Ann(<< >>), Ann(<< Span(0, 1) >>) >>) }

\* Records with a first annotation in which a field used by extraction is
\* missing.
BrokenRecords ==
    { Without(Raw(15, UrlA, DocPlain, << Ann(<< Span(0, 1) >>) >>),
              "example_id"),
      Without(Raw(16, UrlB, DocPlain, << Ann(<< Span(0, 1) >>) >>),
              "document_text"),
      Without(Raw(17, UrlB, DocPlain, << Ann(<< >>) >>), "document_url"),
      Raw(18, UrlA, DocPlain, << Ann(<< [end_token |-> 1] >>) >>),
      Raw(19, UrlA, DocPlain,
          << Ann(<< [end_token |-> 1], Span(0, 1) >>) >>) }

\* Records without a first annotation to look at.
UnannotatedRecords ==
    { Without(Raw(20, UrlA, DocPlain, << >>), "annotations"),
      Raw(21, UrlA, DocPlain, << >>),
      Raw(22, UrlB, DocPlain, << [yes_no_answer |-> "NONE"] >>) }

RawRecords == GoodRecords \cup BrokenRecords \cup UnannotatedRecords

\* The lists of at most n elements of S.
ListsUpTo(S, n) == UNION {[1..k -> S] : k \in 0..n}

RawLists == ListsUpTo(RawRecords, MaxRecs)

Clean(id, title, url, text) ==
    [example_id          |-> id,
     document_title      |-> title,
     document_url        |-> url,
     question_text       |-> << "q" >>,
     short_answer        |-> << "a" >>,
     document_text_clean |-> text]

\* Clean records as a clean-record artifact may hold them: records of the two
\* titles, each title under two URLs and with two texts.
CleanRecords ==
    { Clean(1, t, u, d) : t \in {<< "A" >>, << "B" >>},
                          u \in {UrlA, UrlB},
                          d \in {<< "a" >>, << "a", " ", "b" >>} }

CleanLists == ListsUpTo(CleanRecords, MaxClean)

\* The raw files a run may find: of well-formed records only, with records
\* that lack a field, and with a record that has no first annotation.
RawFiles ==
    { << Raw(2, UrlA, DocPlain, << Ann(<< Span(0, 1) >>) >>),
         Raw(1, UrlA, DocPlain, << Ann(<< >>) >>),
         Raw(7, UrlNone, DocPlain, << Ann(<< Span(0, 1), Span(1, 2) >>) >>) >>,
      << Without(Raw(15, UrlA, DocPlain, << Ann(<< Span(0, 1) >>) >>),
                 "example_id"),
         Raw(18, UrlA, DocPlain, << Ann(<< [end_token |-> 1] >>) >>),
         Raw(3, UrlA2, DocPlain, << Ann(<< Span(1, 2) >>) >>) >>,
      << Raw(7, UrlNone, DocPlain, << Ann(<< Span(0, 1), Span(1, 2) >>) >>),
         Without(Raw(20, UrlA, DocPlain, << >>), "annotations"),
         Raw(2, UrlA, DocPlain, << Ann(<< Span(0, 1) >>) >>) >>,
      << Raw(12, UrlA2, DocBlank, << Ann(<< Span(0, 5) >>) >>),
         Raw(21, UrlA, DocPlain, << >>) >>,
      << Raw(22, UrlB, DocPlain, << [yes_no_answer |-> "NONE"] >>) >>,
      << Raw(8, UrlA, DocTagged, << Ann(<< Span(0, 2) >>) >>),
         Raw(11, UrlA, DocBlank, << Ann(<< Span(0, 6) >>) >>),
         Raw(4, UrlB, DocPlain, << Ann(<< Span(1, 1) >>) >>),
         Without(Raw(16, UrlB, DocPlain, << Ann(<< Span(0, 1) >>) >>),
                 "document_text") >> }

\* What an output file left by an earlier use of the store holds.
OldClean    == << Clean(90, << "A" >>, UrlA, << "a" >>),
                  Clean(91, << "A" >>, UrlA2, << "a", " ", "b" >>) >>
OldEvidence == << [document_title      |-> << "Old" >>,
                   document_url        |-> UrlNone,
                   document_text_clean |-> << "a" >>] >>
OldRecords  == << SlimRecord(Clean(92, << "Old" >>, UrlNone, << "a" >>)) >>

OldContent(path) ==
    IF path \in {outfile(m) : m \in BOOLEAN} THEN OldClean
    ELSE IF path \in {outfile_ec(m) : m \in BOOLEAN} THEN OldEvidence
    ELSE OldRecords

\* ------------------------------------------------------------------- state

VARIABLES
    store,            \* the files: path -> [exists, content]
    pc,               \* where the running routine is; "idle" when none runs
    routine,          \* "prep" or "comp": the routine running or last run
    mode,             \* self.mode of that routine
    data,             \* self.data
    step_input,       \* self.data as the last preparation step found it
    input_objs,       \* the list filter_nq_train_data consumed, after the call
    evidence_corpus,  \* self.evidence_corpus
    qa_records,       \* self.qa_records
    outcome,          \* how the last run ended; "none" while one runs
    started_with,     \* the store as it was when the run started
    completed,        \* the <<routine, mode>> runs that have finished
    accessed,         \* the paths the run has tested, opened or written
    helper            \* a helper function called on its own: [arg, ret]

vars == << store, pc, routine, mode, data, step_input, input_objs,
           evidence_corpus, qa_records, outcome, started_with, completed,
           accessed, helper >>

exists(path) == store[path].exists

\* No helper function has been called on its own.
NoCall == [arg |-> << >>, ret |-> << >>]

\* No routine object yet: nothing loaded, nothing compiled.
Fresh ==
    /\ data = << >>
    /\ step_input = << >>
    /\ input_objs = << >>
    /\ evidence_corpus = << >>
    /\ qa_records = << >>
    /\ completed = {}
    /\ helper = NoCall

\* Any store: the raw file is absent or one of RawFiles, and each output file
\* is absent or left by an earlier use.
Init ==
    /\ \E raw \in {NoFile} \cup {File(l) : l \in RawFiles} :
       \E present \in SUBSET OutputPaths :
          store = [p \in Paths |->
                      IF p = raw_data_path THEN raw
                      ELSE IF p \in present THEN File(OldContent(p))
                      ELSE NoFile]
    /\ pc = "idle"
    /\ routine = "none"
    /\ mode = TRUE
    /\ outcome = "none"
    /\ started_with = store
    /\ accessed = {}
    /\ Fresh

\* The run ends here with an exception or with its last statement.
Ends(how) ==
    /\ pc' = "idle"
    /\ outcome' = how

\* ------------------------------------------- DataPreprocessingRoutine.run

\* DataPreprocessingRoutine(raw_data_path, retriever_eval_only=m).run() up to
\* its guard.
PrepRun(m) ==
    /\ pc = "idle"
    /\ routine' = "prep"
    /\ mode' = m
    /\ started_with' = store
    /\ data' = << >>
    /\ step_input' = << >>
    /\ input_objs' = << >>
    /\ evidence_corpus' = << >>
    /\ qa_records' = << >>
    /\ IF exists(outfile(m))
       THEN Ends("raised_guard")
       ELSE pc' = "p_guarded" /\ outcome' = "none"
    /\ accessed' = {outfile(m)}
    /\ UNCHANGED << store, completed, helper >>

\* self.load_data(): open() raises when the raw file is missing.
PrepLoad ==
    /\ pc = "p_guarded"
    /\ IF exists(raw_data_path)
       THEN /\ data' = store[raw_data_path].content
            /\ pc' = "p_loaded"
            /\ UNCHANGED outcome
       ELSE /\ Ends("raised_load")
            /\ UNCHANGED data
    /\ accessed' = accessed \cup {raw_data_path}
    /\ UNCHANGED << step_input, store, routine, mode, input_objs, evidence_corpus,
                    qa_records, started_with, completed, helper >>

\* self.filter_nq_train_data(): self.data is assigned only when the loop
\* ends; when the loop raises, self.data is the loaded list as the loop
\* left it.
PrepFilter ==
    /\ pc = "p_loaded"
    /\ step_input' = data
    /\ LET r == filter_nq_train_data(data, mode)
       IN  /\ input_objs' = r.inp
           /\ IF r.raised
              THEN data' = r.inp /\ Ends("raised_filter")
              ELSE data' = r.out /\ pc' = "p_filtered" /\ UNCHANGED outcome
    /\ UNCHANGED << store, routine, mode, evidence_corpus, qa_records,
                    started_with, completed,
                    accessed, helper >>

\* self.extract_data()
PrepExtract ==
    /\ pc = "p_filtered"
    /\ step_input' = data
    /\ LET r == extract_data(data)
       IN  IF r.raised
           THEN Ends("raised_extract") /\ UNCHANGED data
           ELSE data' = r.out /\ pc' = "p_extracted" /\ UNCHANGED outcome
    /\ UNCHANGED << store, routine, mode, input_objs, evidence_corpus,
                    qa_records, started_with, completed,
                    accessed, helper >>

\* self.drop_longer_answers()
PrepDrop ==
    /\ pc = "p_extracted"
    /\ step_input' = data
    /\ data' = drop_longer_answers(data)
    /\ pc' = "p_dropped"
    /\ UNCHANGED << store, routine, mode, input_objs, evidence_corpus,
                    qa_records, outcome, started_with, completed,
                    accessed, helper >>

\* os.makedirs(...); self.save_data(outfile); return
PrepSave ==
    /\ pc = "p_dropped"
    /\ store' = create_pkl_file(store, data, outfile(mode))
    /\ completed' = completed \cup {<< "prep", mode >>}
    /\ Ends("finished")
    /\ accessed' = accessed \cup {outfile(mode)}
    /\ UNCHANGED << step_input, routine, mode, data, input_objs, evidence_corpus,
                    qa_records, started_with, helper >>

\* -------------------------------------------- DataCompilationRoutine.run

\* A guard that builds its two names with the suffix of the other mode.
OutputsExistOtherMode(m) == exists(outfile_ec(~m)) \/ exists(outfile_ec(~m))

\* The condition under which run() raises instead of compiling.
OutputsExist(m) == exists(outfile_ec(m)) \/ exists(outfile_ec(m))

\* DataCompilationRoutine(retriever_eval_only=m).run() up to its guard.
CompRun(m) ==
    /\ pc = "idle"
    /\ routine' = "comp"
    /\ mode' = m
    /\ started_with' = store
    /\ data' = << >>
    /\ step_input' = << >>
    /\ input_objs' = << >>
    /\ evidence_corpus' = << >>
    /\ qa_records' = << >>
    /\ IF OutputsExist(m)
       THEN Ends("raised_guard")
       ELSE pc' = "c_guarded" /\ outcome' = "none"
    /\ accessed' = {outfile_ec(m)}
    /\ UNCHANGED << store, completed, helper >>

\* A load that yields the empty list when the file is missing, as the
\* initial data = [] of load_pkl_file would if open() did not raise.
CompLoadMissingAsEmpty ==
    /\ pc = "c_guarded"
    /\ data' = store[clean_data_path(mode)].content
    /\ pc' = "c_loaded"
    /\ accessed' = accessed \cup {clean_data_path(mode)}
    /\ UNCHANGED << step_input, store, routine, mode, input_objs,
                    evidence_corpus, qa_records, outcome, started_with,
                    completed, helper >>

\* self.load_data(): open() raises when the clean-record file is missing.
CompLoad ==
    /\ pc = "c_guarded"
    /\ IF exists(clean_data_path(mode))
       THEN /\ data' = store[clean_data_path(mode)].content
            /\ pc' = "c_loaded"
            /\ UNCHANGED outcome
       ELSE /\ Ends("raised_load")
            /\ UNCHANGED data
    /\ accessed' = accessed \cup {clean_data_path(mode)}
    /\ UNCHANGED << step_input, store, routine, mode, input_objs, evidence_corpus,
                    qa_records, started_with, completed, helper >>

\* A compilation that saves the evidence corpus as soon as it is built,
\* before qa_records is compiled.
CompEvidenceSavedAtOnce ==
    /\ pc = "c_loaded"
    /\ evidence_corpus' = compile_evidence_corpus(data)
    /\ store' = create_pkl_file(store, evidence_corpus', outfile_ec(mode))
    /\ pc' = "c_evidence"
    /\ UNCHANGED << step_input, routine, mode, data, input_objs, qa_records,
                    outcome, started_with, completed, accessed, helper >>

\* self.compile_evidence_corpus()
CompEvidence ==
    /\ pc = "c_loaded"
    /\ evidence_corpus' = compile_evidence_corpus(data)
    /\ pc' = "c_evidence"
    /\ UNCHANGED << step_input, store, routine, mode, data, input_objs, qa_records,
                    outcome, started_with, completed,
                    accessed, helper >>

\* self.compile_qa_records()
CompRecords ==
    /\ pc = "c_evidence"
    /\ qa_records' = compile_qa_records(data)
    /\ pc' = "c_records"
    /\ UNCHANGED << step_input, store, routine, mode, data, input_objs, evidence_corpus,
                    outcome, started_with, completed,
                    accessed, helper >>

\* os.makedirs(...); self.save_data(self.evidence_corpus, outfile_ec)
CompSaveEvidence ==
    /\ pc = "c_records"
    /\ store' = create_pkl_file(store, evidence_corpus, outfile_ec(mode))
    /\ pc' = "c_saved_ec"
    /\ accessed' = accessed \cup {outfile_ec(mode)}
    /\ UNCHANGED << step_input, routine, mode, data, input_objs, evidence_corpus,
                    qa_records, outcome, started_with, completed, helper >>

\* self.save_data(self.qa_records, outfile_rec)
CompSaveRecords ==
    /\ pc = "c_saved_ec"
    /\ store' = create_pkl_file(store, qa_records, outfile_rec(mode))
    /\ completed' = completed \cup {<< "comp", mode >>}
    /\ Ends("finished")
    /\ accessed' = accessed \cup {outfile_rec(mode)}
    /\ UNCHANGED << step_input, routine, mode, data, input_objs, evidence_corpus,
                    qa_records, started_with, helper >>

\* The process is killed while a routine runs.
Interrupt ==
    /\ pc # "idle"
    /\ Ends("interrupted")
    /\ UNCHANGED << step_input, store, routine, mode, data, input_objs, evidence_corpus,
                    qa_records, started_with, completed,
                    accessed, helper >>

PrepSteps == PrepFilter \/ PrepExtract \/ PrepDrop \/ PrepSave
CompSteps == CompEvidence \/ CompRecords \/ CompSaveEvidence \/ CompSaveRecords

Next ==
    \/ \E m \in BOOLEAN : PrepRun(m)
    \/ PrepLoad
    \/ PrepSteps
    \/ \E m \in BOOLEAN : CompRun(m)
    \/ CompLoad
    \/ CompSteps
    \/ Interrupt

\* Runs of the two routines, in either mode and in any order, on any store.
Spec == Init /\ [][Next]_vars

\* The preparation steps applied to any loaded raw list, in either mode.
InitPrep ==
    /\ data \in RawLists
    /\ store = [p \in Paths |-> IF p = raw_data_path THEN File(data) ELSE NoFile]
    /\ started_with = store
    /\ pc = "p_loaded"
    /\ routine = "prep"
    /\ mode \in BOOLEAN
    /\ outcome = "none"
    /\ step_input = << >>
    /\ input_objs = << >>
    /\ evidence_corpus = << >>
    /\ qa_records = << >>
    /\ completed = {}
    /\ accessed = {outfile(mode), raw_data_path}
    /\ helper = NoCall

SpecPrep == InitPrep /\ [][PrepSteps]_vars

\* extract_data and the steps after it applied to any list, also one that
\* filter_nq_train_data would not have let through.
InitExtract ==
    /\ store = [p \in Paths |-> NoFile]
    /\ started_with = store
    /\ pc = "p_filtered"
    /\ routine = "prep"
    /\ mode \in BOOLEAN
    /\ outcome = "none"
    /\ data \in RawLists
    /\ step_input = << >>
    /\ input_objs = << >>
    /\ evidence_corpus = << >>
    /\ qa_records = << >>
    /\ completed = {}
    /\ accessed = {outfile(mode), raw_data_path}
    /\ helper = NoCall

ExtractSteps == PrepExtract \/ PrepDrop \/ PrepSave

SpecExtract == InitExtract /\ [][ExtractSteps]_vars

\* The compilation steps applied to any clean list.
InitComp ==
    /\ store = [p \in Paths |-> NoFile]
    /\ started_with = store
    /\ pc = "c_loaded"
    /\ routine = "comp"
    /\ mode \in BOOLEAN
    /\ outcome = "none"
    /\ data \in CleanLists
    /\ step_input = << >>
    /\ input_objs = << >>
    /\ evidence_corpus = << >>
    /\ qa_records = << >>
    /\ completed = {}
    /\ accessed = {outfile_ec(mode), clean_data_path(mode)}
    /\ helper = NoCall

SpecComp == InitComp /\ [][CompSteps]_vars

\* The most tokens of a text whose spans are measured.
MaxTokens == 6

\* An empty token (two spaces in a row), a word, a tag.
WidthTokens == {<< >>, << "a" >>, << "<", "b", ">" >>}

\* The record whose text is the tokens joined by single spaces and whose
\* one span is (s, e).
WidthRecord(toks, s, e) ==
    Raw(1, UrlA, PyJoin(toks), << Ann(<< Span(s, e) >>) >>)

\* The preparation steps applied to a loaded list of one record, for every
\* text of one to MaxTokens tokens and every span with
\* 0 <= start_token < end_token <= number of tokens.
InitWidth ==
    /\ \E n \in 1..MaxTokens :
       \E toks \in [1..n -> WidthTokens] :
       \E e \in 1..n :
       \E s \in 0..(e - 1) :
          data = << WidthRecord(toks, s, e) >>
    /\ store = [p \in Paths |-> IF p = raw_data_path THEN File(data) ELSE NoFile]
    /\ started_with = store
    /\ pc = "p_loaded"
    /\ routine = "prep"
    /\ mode \in BOOLEAN
    /\ outcome = "none"
    /\ step_input = << >>
    /\ input_objs = << >>
    /\ evidence_corpus = << >>
    /\ qa_records = << >>
    /\ completed = {}
    /\ accessed = {outfile(mode), raw_data_path}
    /\ helper = NoCall

SpecWidth == InitWidth /\ [][PrepSteps]_vars

\* A store on which no compilation has run: neither final file of either
\* mode exists.
InitNoFinal ==
    /\ Init
    /\ \A m \in BOOLEAN : ~exists(outfile_ec(m)) /\ ~exists(outfile_rec(m))

\* Runs of the two routines, in either mode and in any order, from such a
\* store.
SpecNoFinal == InitNoFinal /\ [][Next]_vars

\* dpr.run(); dcr.run() once the raw list is loaded: the preparation steps,
\* then a compilation in the same mode.
PipelineSteps == PrepSteps \/ CompRun(mode) \/ CompLoad \/ CompSteps

\* The compilation applied to what the preparation makes of any raw list.
SpecPipeline == InitPrep /\ [][PipelineSteps]_vars

\* ------------------------------------------- data_utils.compile_data_pipeline

\* utils.data_utils.compile_data_pipeline(retriever_eval_only): the function
\* form of the compilation. It has no guard; it opens the clean-record file
\* and writes the two final files under fixed names, whatever its argument.
compile_data_pipeline(retriever_eval_only) ==
    /\ pc = "idle"
    /\ routine' = "compile_data_pipeline"
    /\ mode' = retriever_eval_only
    /\ started_with' = store
    /\ step_input' = << >>
    /\ input_objs' = << >>
    /\ IF exists(<< "data/stage_data/extracted_clean_data", "" >>)
       THEN /\ data' =
                 store[<< "data/stage_data/extracted_clean_data", "" >>].content
            /\ evidence_corpus' = compile_evidence_corpus(data')
            /\ qa_records' = compile_qa_records(data')
            /\ store' =
                 [store EXCEPT
                    ![<< "data/eval_data/evidence_corpus", "" >>] =
                        File(evidence_corpus'),
                    ![<< "data/eval_data/qa_records", "" >>] =
                        File(qa_records')]
            /\ accessed' = {<< "data/stage_data/extracted_clean_data", "" >>,
                            << "data/eval_data/evidence_corpus", "" >>,
                            << "data/eval_data/qa_records", "" >>}
            /\ Ends("finished")
       ELSE /\ data' = << >>
            /\ evidence_corpus' = << >>
            /\ qa_records' = << >>
            /\ accessed' = {<< "data/stage_data/extracted_clean_data", "" >>}
            /\ Ends("raised_load")
            /\ UNCHANGED store
    /\ UNCHANGED << completed, helper >>

NextWithUtils ==
    \/ Next
    \/ \E m \in BOOLEAN : compile_data_pipeline(m)

\* Runs of the two routines and of the function form of the compilation, in
\* either mode and in any order, on any store.
SpecUtils == Init /\ [][NextWithUtils]_vars

\* ------------------------------------------------- helper functions alone

\* The longest document_text of a helper call.
MaxTextLen == 4

\* The characters of the token texts for span resolution, and those of the
\* texts with tags and line ends for clean_document_text.
SpanChars == {"a", "b", " "}
TagChars  == {"a", " ", "<", ">", "\n"}

\* Any integer pair around the token positions of a text: a text of n
\* characters has at most n + 1 tokens.
SpanIndexes == (0 - MaxTextLen - 2)..(MaxTextLen + 2)

\* A record with the spans, which are one span or none.
SpanExample(text, spans) == Raw(1, UrlA, text, << Ann(spans) >>)

InitHelpers ==
    /\ store = [p \in Paths |-> NoFile]
    /\ started_with = store
    /\ routine = "none"
    /\ mode = TRUE
    /\ outcome = "none"
    /\ accessed = {}
    /\ data = << >>
    /\ step_input = << >>
    /\ input_objs = << >>
    /\ evidence_corpus = << >>
    /\ qa_records = << >>
    /\ completed = {}
    /\ \E k \in 0..MaxTextLen :
          \/ /\ pc = "h_span"
             /\ \E text \in [1..k -> SpanChars] :
                \/ \E s \in SpanIndexes : \E e \in SpanIndexes :
                      helper = [arg |-> SpanExample(text, << Span(s, e) >>),
                                ret |-> << >>]
                \/ helper = [arg |-> SpanExample(text, << >>), ret |-> << >>]
          \/ /\ pc = "h_clean"
             /\ \E text \in [1..k -> TagChars] :
                   helper = [arg |-> text, ret |-> << >>]

\* self.get_short_answer_from_span(example)
GetShortAnswerFromSpan ==
    /\ pc = "h_span"
    /\ helper' = [helper EXCEPT !.ret = get_short_answer_from_span(helper.arg)]
    /\ pc' = "h_span_ret"
    /\ UNCHANGED << store, routine, mode, data, step_input, input_objs,
                    evidence_corpus, qa_records, outcome, started_with,
                    completed, accessed >>

\* self.clean_document_text(text)
CleanDocumentText ==
    /\ pc = "h_clean"
    /\ helper' = [helper EXCEPT !.ret = Ok(clean_document_text(helper.arg))]
    /\ pc' = "h_clean_ret"
    /\ UNCHANGED << store, routine, mode, data, step_input, input_objs,
                    evidence_corpus, qa_records, outcome, started_with,
                    completed, accessed >>

HelperSteps == GetShortAnswerFromSpan \/ CleanDocumentText

\* The two text helpers called on their own on any small input.
SpecHelpers == InitHelpers /\ [][HelperSteps]_vars

\* -------------------------------------------------------------- properties

\* The last statement of a run has been reached or an exception has left it.
RunEnded == pc = "idle" /\ outcome \notin {"none", "interrupted"}

\* C1: a Compilation run that starts while the evidence-corpus file or the
\* QA-records file of its mode exists raises at its guard: nothing is
\* loaded, and both files stay as they were.
C1_CompilationRefusesExistingOutput ==
    ( /\ routine = "comp"
      /\ \/ started_with[outfile_ec(mode)].exists
         \/ started_with[outfile_rec(mode)].exists )
    => /\ pc = "idle"
       /\ outcome = "raised_guard"
       /\ data = << >>
       /\ store[outfile_ec(mode)] = started_with[outfile_ec(mode)]
       /\ store[outfile_rec(mode)] = started_with[outfile_rec(mode)]

\* C2: once a run of a routine in a mode has finished, every later start of
\* the same routine in the same mode raises at the guard, in the step that
\* starts it: nothing is loaded and no file is created, changed or removed.
C2_RerunRaisesAtGuard ==
    [][ (pc = "idle" /\ << routine', mode' >> \in completed)
        => /\ pc' = "idle"
           /\ outcome' = "raised_guard"
           /\ data' = << >>
           /\ store' = store ]_vars

\* A Compilation run was refused after both routines had finished in its
\* mode, the files being those the first runs wrote.
C2_Witness ==
    /\ routine = "comp"
    /\ RunEnded
    /\ outcome = "raised_guard"
    /\ << "comp", mode >> \in completed
    /\ << "prep", mode >> \in completed
    /\ store[outfile_rec(mode)].content # OldRecords

\* The clean-record list the run has persisted, if any.
Persisted == store[outfile(mode)].content

\* C3: every record of the persisted clean-record list has a short_answer
\* that occurs in its own document_text_clean and that splits on single
\* spaces into at most 5 tokens, in both modes.
C3_PersistedAnswersAreShortSubstrings ==
    exists(outfile(mode))
    => \A i \in 1..Len(Persisted) :
          /\ PyIn(Persisted[i]["short_answer"],
                  Persisted[i]["document_text_clean"])
          /\ Len(PySplit(Persisted[i]["short_answer"])) <= 5

\* A list was persisted that holds an answer of exactly five tokens, the
\* other record of the raw list, which had a span too, having been removed.
C3_Witness ==
    /\ exists(outfile(mode))
    /\ \E i \in 1..Len(Persisted) :
          Len(PySplit(Persisted[i]["short_answer"])) = 5
    /\ Len(Persisted) = 1
    /\ Len(store[raw_data_path].content) = 2
    /\ \A k \in 1..2 :
          Len(store[raw_data_path].content[k]["annotations"][1]["short_answers"]) = 1

\* C4: in retrieval-only mode no record with an empty short_answer is left
\* after filter_nq_train_data, extract_data and drop_longer_answers.
C4_StrictAnswersNonEmpty ==
    (mode = TRUE /\ pc = "p_dropped")
    => \A i \in 1..Len(data) : data[i]["short_answer"] # << >>

\* self.evidence_corpus has been assigned by the running Compilation run.
EvidenceCompiled ==
    routine = "comp" /\ pc \in {"c_evidence", "c_records", "c_saved_ec"}

\* The index in self.data of the earliest record with the title.
FirstWithTitle(title) ==
    SetMin({i \in 1..Len(data) : data[i]["document_title"] = title})

\* C5: the evidence corpus has pairwise distinct titles, exactly the titles
\* of the clean records; the document of a title carries the URL and the
\* text of the earliest clean record with that title; and the documents are
\* in the order of those first occurrences.
C5_EvidenceIsFirstOccurrencePerTitle ==
    EvidenceCompiled
    => /\ \A j, k \in 1..Len(evidence_corpus) :
             j # k => evidence_corpus[j]["document_title"]
                        # evidence_corpus[k]["document_title"]
       /\ {evidence_corpus[j]["document_title"] : j \in 1..Len(evidence_corpus)}
            = {data[i]["document_title"] : i \in 1..Len(data)}
       /\ \A j \in 1..Len(evidence_corpus) :
             LET first == data[FirstWithTitle(evidence_corpus[j]["document_title"])]
             IN  /\ DOMAIN evidence_corpus[j]
                      = {"document_title", "document_url", "document_text_clean"}
                 /\ evidence_corpus[j]["document_url"] = first["document_url"]
                 /\ evidence_corpus[j]["document_text_clean"]
                      = first["document_text_clean"]
       /\ \A j, k \in 1..Len(evidence_corpus) :
             j < k => FirstWithTitle(evidence_corpus[j]["document_title"])
                        < FirstWithTitle(evidence_corpus[k]["document_title"])

\* The corpus of a list A, B, A whose two A records differ in URL and text.
C5_Witness ==
    /\ EvidenceCompiled
    /\ Len(data) = 3
    /\ Len(evidence_corpus) = 2
    /\ data[1]["document_title"] = data[3]["document_title"]
    /\ data[1]["document_title"] # data[2]["document_title"]
    /\ data[1]["document_url"] # data[3]["document_url"]
    /\ data[1]["document_text_clean"] # data[3]["document_text_clean"]

\* self.qa_records has been assigned by the running Compilation run.
RecordsCompiled == routine = "comp" /\ pc \in {"c_records", "c_saved_ec"}

\* C6: qa_records is as long as the clean list; its i-th record has no
\* document_text_clean and agrees with the i-th clean record on every other
\* field; records that share a title are all kept.
C6_QaRecordsAreSlimCopies ==
    RecordsCompiled
    => /\ Len(qa_records) = Len(data)
       /\ \A i \in 1..Len(data) :
             /\ "document_text_clean" \notin DOMAIN qa_records[i]
             /\ DOMAIN qa_records[i]
                  = {"example_id", "document_title", "document_url",
                     "question_text", "short_answer"}
             /\ \A k \in DOMAIN qa_records[i] : qa_records[i][k] = data[i][k]

\* The QA records of three clean records of one title.
C6_Witness ==
    /\ RecordsCompiled
    /\ Len(data) = 3
    /\ Len(qa_records) = 3
    /\ \A i \in 1..3 : data[i]["document_title"] = data[1]["document_title"]
    /\ \A i \in 1..3 : "document_text_clean" \in DOMAIN data[i]

\* The raw list as the file holds it.
RawList == store[raw_data_path].content

Spans(rec) == rec["annotations"][1]["short_answers"]

\* A raw record with every field the routine reads and no span in its first
\* annotation.
WellFormedWithoutSpan(rec) ==
    /\ {"example_id", "document_url", "question_text", "document_text",
        "annotations"} \subseteq DOMAIN rec
    /\ HasFirstAnnotation(rec)
    /\ Spans(rec) = << >>

\* self.data holds a record made from the raw record rec.
InData(rec) ==
    \E j \in 1..Len(data) :
        /\ "example_id" \in DOMAIN data[j]
        /\ data[j]["example_id"] = rec["example_id"]

\* C7 (Rule A): at each stage after the filter, a well-formed raw record
\* without a span is in self.data if and only if the mode flag is false; the
\* clean record made from it has the empty short_answer.
C7_RuleA ==
    (routine = "prep" /\ pc \in {"p_filtered", "p_extracted", "p_dropped"})
    => \A i \in 1..Len(RawList) :
          WellFormedWithoutSpan(RawList[i])
          => /\ InData(RawList[i]) <=> (mode = FALSE)
             /\ pc # "p_filtered"
                => \A j \in 1..Len(data) :
                      data[j]["example_id"] = RawList[i]["example_id"]
                      => data[j]["short_answer"] = << >>

\* In full-system mode a record without a span has passed all three stages,
\* next to a record with a span.
C7_Witness ==
    /\ routine = "prep"
    /\ pc = "p_dropped"
    /\ mode = FALSE
    /\ Len(RawList) = 2
    /\ Len(data) = 2
    /\ WellFormedWithoutSpan(RawList[1])
    /\ Len(Spans(RawList[2])) = 1
    /\ data[1]["short_answer"] = << >>
    /\ data[2]["short_answer"] # << >>

\* Rule A lets the record through.
PassesRuleA(rec) == ~(Len(Spans(rec)) = 0 /\ mode = TRUE)

\* C8 (Rule B): the filter's output is, in order, the records Rule A lets
\* through; each has at most one span; a record that came with several
\* spans keeps exactly its first one, and a record that came with none or
\* one is unchanged.
C8_RuleB ==
    (routine = "prep" /\ pc = "p_filtered")
    => LET kept == SelectSeq(step_input, PassesRuleA)
       IN  /\ Len(data) = Len(kept)
           /\ \A i \in 1..Len(data) :
                 /\ Len(Spans(data[i])) <= 1
                 /\ IF Len(Spans(kept[i])) > 1
                    THEN /\ Spans(data[i]) = << Spans(kept[i])[1] >>
                         /\ \A k \in DOMAIN kept[i] \ {"annotations"} :
                               data[i][k] = kept[i][k]
                    ELSE data[i] = kept[i]

\* The filter has truncated a record of three spans and passed a record of
\* one span.
C8_Witness ==
    /\ routine = "prep"
    /\ pc = "p_filtered"
    /\ Len(step_input) = 2
    /\ Len(data) = 2
    /\ Len(Spans(step_input[1])) = 3
    /\ Len(Spans(step_input[2])) = 1
    /\ Spans(step_input[1])[1] # Spans(step_input[1])[3]

\* The clean records of the records of l whose try block completes and
\* passes the consistency check, each computed from its own record alone.
RECURSIVE OwnOutcomes(_)
OwnOutcomes(l) ==
    IF l = << >> THEN << >>
    ELSE (IF ExtractRecord(Head(l)).kind = "ok"
          THEN << ExtractRecord(Head(l)).rec >>
          ELSE << >>) \o OwnOutcomes(Tail(l))

RemoveAt(l, i) == SubSeq(l, 1, i - 1) \o SubSeq(l, i + 1, Len(l))

\* C9: extract_data never raises; its result holds, in order, what each
\* record yields on its own, and it is the result extract_data gives for the
\* list without any one of the records whose try block raised.
C9_ExtractionIsRecordIsolated ==
    routine = "prep"
    => /\ outcome # "raised_extract"
       /\ pc = "p_extracted"
          => /\ data = OwnOutcomes(step_input)
             /\ \A i \in 1..Len(step_input) :
                   ExtractRecord(step_input[i]).kind = "error"
                   => data = extract_data(RemoveAt(step_input, i)).out

\* extract_data has skipped a first record that has no annotations field and
\* kept the record after it.
C9_Witness ==
    /\ routine = "prep"
    /\ pc = "p_extracted"
    /\ Len(step_input) = 2
    /\ "annotations" \notin DOMAIN step_input[1]
    /\ ExtractRecord(step_input[1]).kind = "error"
    /\ Len(data) = 1
    /\ data[1]["example_id"] = step_input[2]["example_id"]

\* A Preparation run has ended, by its last statement or by an exception,
\* that started with the raw file present and its output file absent.
PrepRunEndedOnGoodStore ==
    /\ routine = "prep"
    /\ RunEnded
    /\ started_with[raw_data_path].exists
    /\ ~started_with[outfile(mode)].exists

\* C10 as stated: such a run always ends by persisting the clean-record
\* file, whatever the records of the raw file are.
C10_PreparationAlwaysPersists ==
    PrepRunEndedOnGoodStore
    => outcome = "finished" /\ exists(outfile(mode))

\* The records of the raw list whose try block in extract_data completes.
Extractable(rec) == ExtractRecord(rec).kind # "error"

\* C10 as amended: when every record of the raw file has a first annotation
\* with a short_answers field, the run finishes and persists what the three
\* stages make of the raw list, which is what they make of the list without
\* the records that lack another field or have a malformed span; when some
\* record has no such annotation, filter_nq_train_data raises, the run ends
\* there and no clean-record file is written.
C10_PreparationPersistsUnlessUnannotated ==
    PrepRunEndedOnGoodStore
    => IF \A i \in 1..Len(RawList) : HasFirstAnnotation(RawList[i])
       THEN /\ outcome = "finished"
            /\ exists(outfile(mode))
            /\ Persisted =
                 drop_longer_answers(
                   extract_data(
                     filter_nq_train_data(SelectSeq(RawList, Extractable),
                                          mode).out).out)
       ELSE /\ outcome = "raised_filter"
            /\ ~exists(outfile(mode))

\* A run has persisted one record of a raw file of three records, two of
\* which lack a field that extraction reads.
C10_Witness ==
    /\ PrepRunEndedOnGoodStore
    /\ outcome = "finished"
    /\ Len(RawList) = 3
    /\ Cardinality({i \in 1..3 : ~Extractable(RawList[i])}) = 2
    /\ Len(Persisted) = 1

\* C11: filter_nq_train_data leaves the records of the list it consumed as
\* they were: after the call every one of them has the annotations, and so
\* the short_answers list, it had before.
C11_FilterLeavesInputRecordsAlone ==
    (routine = "prep" /\ pc = "p_filtered")
    => /\ Len(input_objs) = Len(step_input)
       /\ \A i \in 1..Len(step_input) :
             input_objs[i]["annotations"] = step_input[i]["annotations"]

\* A run has started with the file it reads missing.
StartedWithoutInput ==
    \/ routine = "prep" /\ ~started_with[raw_data_path].exists
    \/ routine = "comp" /\ ~started_with[clean_data_path(mode)].exists

\* C12: a run started while its input file is missing gets no further than
\* its load, ends with an exception and leaves the store as it was; and a
\* Compilation run is past its load, where the two final files are written,
\* only while the clean-record file of its mode exists.
C12_NoInputNoOutput ==
    /\ StartedWithoutInput
       => /\ pc \in {"idle", "p_guarded", "c_guarded"}
          /\ RunEnded => outcome \in {"raised_guard", "raised_load"}
          /\ store = started_with
    /\ ( /\ routine = "comp"
         /\ \/ pc \in {"c_loaded", "c_evidence", "c_records", "c_saved_ec"}
            \/ outcome = "finished" )
       => exists(clean_data_path(mode))

\* A Compilation run has passed its guard and failed at its load, the
\* clean-record file and both final files being absent.
C12_Witness ==
    /\ routine = "comp"
    /\ RunEnded
    /\ outcome = "raised_load"
    /\ ~exists(clean_data_path(mode))
    /\ ~exists(outfile_ec(mode))
    /\ ~exists(outfile_rec(mode))

\* The first span of the record a span resolution was called on, and the
\* tokens of its text.
CalledSpans  == helper.arg["annotations"][1]["short_answers"]
CalledTokens == PySplit(helper.arg["document_text"])

\* The tokens at the positions i with lo <= i < hi that exist (positions
\* count from 0).
TokensWithin(tokens, lo, hi) ==
    LET first == Max(lo, 0)
        last  == Min(hi, Len(tokens))
    IN  IF first < last THEN SubSeq(tokens, first + 1, last) ELSE << >>

\* C13 as stated: for any integer pair the call returns, without raising,
\* the tokens at the positions start_token <= i < end_token that exist,
\* joined by single spaces; without a span it returns the empty string.
C13_SpanIsClampedRange ==
    pc = "h_span_ret"
    => /\ ~helper.ret.raised
       /\ helper.ret.val =
            IF CalledSpans = << >> THEN << >>
            ELSE PyJoin(TokensWithin(CalledTokens,
                                     CalledSpans[1]["start_token"],
                                     CalledSpans[1]["end_token"]))

\* A negative index counts from the end of the token list.
FromEnd(i, n) == IF i < 0 THEN i + n ELSE i

\* C13 as amended: the same for non-negative pairs; a negative index is
\* first replaced by itself plus the number of tokens.
C13_SpanIsPythonSlice ==
    pc = "h_span_ret"
    => /\ ~helper.ret.raised
       /\ helper.ret.val =
            IF CalledSpans = << >> THEN << >>
            ELSE PyJoin(TokensWithin(CalledTokens,
                     FromEnd(CalledSpans[1]["start_token"], Len(CalledTokens)),
                     FromEnd(CalledSpans[1]["end_token"], Len(CalledTokens))))

\* A span that starts inside a text of three tokens and ends beyond its last
\* token has been resolved to the two tokens that exist.
C13_Witness ==
    /\ pc = "h_span_ret"
    /\ CalledSpans # << >>
    /\ Len(CalledTokens) = 3
    /\ CalledSpans[1]["start_token"] = 1
    /\ CalledSpans[1]["end_token"] > 3
    /\ helper.ret = Ok(PyJoin(SubSeq(CalledTokens, 2, 3)))

\* String a can be had from string b by deleting characters.
RECURSIVE IsSubsequence(_, _)
IsSubsequence(a, b) ==
    IF a = << >> THEN TRUE
    ELSE IF b = << >> THEN FALSE
    ELSE IF a[1] = b[1] THEN IsSubsequence(Tail(a), Tail(b))
    ELSE IsSubsequence(a, Tail(b))

\* C14: whatever the text, the result of clean_document_text has no
\* substring that begins with "<" and ends with ">", and is the text with
\* characters deleted.
C14_NoTagLeft ==
    pc = "h_clean_ret"
    => /\ ~helper.ret.raised
       /\ ~ \E i, j \in 1..Len(helper.ret.val) :
              i < j /\ helper.ret.val[i] = "<" /\ helper.ret.val[j] = ">"
       /\ IsSubsequence(helper.ret.val, helper.arg)

\* The path is the raw file or carries the suffix of the run's mode.
OfRunMode(path) == path = raw_data_path \/ path[2] = ext(mode)

\* C15: a run in one mode tests, opens and writes only files of that mode,
\* leaves every output file of the other mode as it was, and a compilation
\* loads the clean-record file of its own mode.
C15_ModeSeparation ==
    routine # "none"
    => /\ \A path \in accessed : OfRunMode(path)
       /\ \A path \in OutputPaths :
             ~OfRunMode(path) => store[path] = started_with[path]
       /\ (routine = "comp" /\ pc = "c_loaded")
          => data = store[outfile(mode)].content

\* The positions in evidence_corpus of the documents with the title.
DocsWithTitle(title) ==
    {j \in 1..Len(evidence_corpus) :
        evidence_corpus[j]["document_title"] = title}

\* C16: once the compilation of a prepared list has built its two
\* collections, every record of qa_records has exactly one document of
\* evidence_corpus with its title, and its short_answer is a substring of
\* that document's document_text_clean.
C16_EveryAnswerInItsEvidence ==
    RecordsCompiled
    => \A i \in 1..Len(qa_records) :
          /\ Cardinality(DocsWithTitle(qa_records[i]["document_title"])) = 1
          /\ \A j \in DocsWithTitle(qa_records[i]["document_title"]) :
                PyIn(qa_records[i]["short_answer"],
                     evidence_corpus[j]["document_text_clean"])

\* The two final files of a mode are both there or both absent.
Paired(m) == exists(outfile_ec(m)) <=> exists(outfile_rec(m))

\* C17 as stated: whenever no run is in progress, however the last one
\* ended, the evidence-corpus file of a mode exists exactly when its
\* QA-records file does.
C17_FinalFilesPairedAtRest ==
    pc = "idle" => \A m \in BOOLEAN : Paired(m)

\* The final files of every mode are paired, but for the mode of a
\* compilation that stands between its two saves.
PairedOrBetweenSaves ==
    \A m \in BOOLEAN :
       Paired(m) \/ (routine = "comp" /\ mode = m /\ pc = "c_saved_ec")

\* C17 as amended: the only step that leaves a final file without its
\* partner is the interruption of a compilation between its two saves; every
\* other step, the end of a run by completion, by an exception or by an
\* interruption elsewhere included, keeps the files paired.
C17_PairedUnlessCutBetweenSaves ==
    [][ (PairedOrBetweenSaves /\ ~(pc = "c_saved_ec" /\ pc' = "idle"
                                    /\ outcome' = "interrupted"))
        => PairedOrBetweenSaves' ]_vars

\* A compilation started without final files has completed and both files
\* of its mode exist.
C17_Witness ==
    /\ routine = "comp"
    /\ RunEnded
    /\ outcome = "finished"
    /\ ~started_with[outfile_ec(mode)].exists
    /\ ~started_with[outfile_rec(mode)].exists
    /\ exists(outfile_ec(mode))
    /\ exists(outfile_rec(mode))

\* end_token - start_token of the span of the one record of the raw file.
SpanWidth ==
    Spans(RawList[1])[1]["end_token"] - Spans(RawList[1])[1]["start_token"]

\* C18: for a record with 0 <= start_token < end_token <= number of tokens,
\* the resolved short_answer has end_token - start_token single-space
\* tokens, empty tokens included; so when the record passes the consistency
\* check, drop_longer_answers keeps it exactly when that width is at most 5.
C18_TokenCountIsSpanWidth ==
    /\ LET resolved == get_short_answer_from_span(RawList[1])
       IN  ~resolved.raised /\ Len(PySplit(resolved.val)) = SpanWidth
    /\ (pc = "p_extracted" /\ data # << >>)
       => Len(PySplit(data[1]["short_answer"])) = SpanWidth
    /\ (pc = "p_dropped" /\ step_input # << >>)
       => (data # << >> <=> SpanWidth <= 5)

\* A record whose span covers six tokens, two of them empty, has passed the
\* consistency check and has been dropped for its length.
C18_Witness ==
    /\ pc = "p_dropped"
    /\ step_input # << >>
    /\ SpanWidth = 6
    /\ Cardinality({i \in 1..6 : PySplit(step_input[1]["short_answer"])[i] = << >>}) = 2
    /\ data = << >>

=============================================================================
